---- MODULE Spec2Model ----
(***************************************************************************)
(* Model of the eventual-consistency core of terraform-provider-tailscale: *)
(*   - readWithWaitFor (tailscale/provider.go), the poller that wraps a    *)
(*     resource read and retries it once per second up to wait_for;        *)
(*   - resourceTailnetKeyDiff / shouldRecreateIfInvalid                    *)
(*     (tailscale/resource_tailnet_key.go), the recreate decision, with    *)
(*     resourceTailnetKeyRead, resourceTailnetKeyDelete and                *)
(*     resourceTailnetKeyCreate.                                           *)
(*                                                                         *)
(* Time is counted in units of 500ms, so time.Second is 2 units.           *)
(***************************************************************************)
EXTENDS Integers, FiniteSets, Sequences, TLC

VARIABLES
    \* ---- readWithWaitFor ------------------------------------------------
    waitFor,       \* data.Get("wait_for"): the wait policy string
    cancelled,     \* ctx.Done() is closed
    pc,            \* "start" | "fn" | "select" | "done" | "panic"
    site,          \* which call of fn is in flight: "initial" | "refetch" | "retry"
    d,             \* the local variable d (the retained diagnostics)
    outcome,       \* the diagnostics returned by the poller
    attempts,      \* number of invocations of fn so far
    lastRead,      \* result of the most recent completed invocation of fn
    consulted,     \* data.Get("wait_for") has been evaluated
    now,           \* current time
    tickers,       \* maxTicker and intervalTicker exist
    loopStart,     \* time at which the tickers were created
    maxNext,       \* next expiry of maxTicker
    intervalNext,  \* next expiry of intervalTicker
    maxC,          \* a tick is buffered in maxTicker.C
    intervalC,     \* a tick is buffered in intervalTicker.C
    \* ---- tailnet key resource -------------------------------------------
    oldPolicy,     \* old value of recreate_if_invalid
    newPolicy,     \* new (planned) value of recreate_if_invalid
    reusable,      \* d.Get("reusable")
    remote,        \* what client.Keys().Get answers for this key
    diffPc,        \* "idle" | "start" | "lookup" | "done"
    forceNew,      \* d.ForceNew("recreate_if_invalid") was called
    diffErr,       \* resourceTailnetKeyDiff returned a non-nil error
    lookups,       \* number of client.Keys().Get calls made by the diff
    policy,        \* d.Get("recreate_if_invalid") of the data given to Read
    keyType,       \* key.KeyType of the key the remote returns
    id,            \* d.Id() of the resource data
    invalidAttr,   \* the stored attribute "invalid"
    refreshed,     \* the attributes Read has set from the remote key
    readRecreate,  \* the local recreateIfInvalid of Read, "unset" before
    readPc,        \* "idle" | "start" | "lookup" | "done"
    readErr,       \* diagnostics returned by Read: "none" | "fetch" | "keytype"
    readLookups,   \* number of client.Keys().Get calls made by Read
    delAnswer,     \* what client.Keys().Delete answers
    delPc,         \* "idle" | "start" | "done"
    delErr,        \* resourceTailnetKeyDelete returned an error
    createAnswer,  \* what client.Keys().CreateAuthKey answers
    createPc,      \* "idle" | "start" | "read" | "done"
    createErr,     \* diagnostics returned by Create: "none" | "create" | ...
    createdAttrs   \* the attributes Create has set from the created key

pollerVars == <<waitFor, cancelled, pc, site, d, outcome, attempts, lastRead,
                consulted, now, tickers, loopStart, maxNext, intervalNext,
                maxC, intervalC>>

diffVars == <<oldPolicy, newPolicy, diffPc, forceNew, diffErr, lookups>>

readVars == <<policy, keyType, id, invalidAttr, refreshed, readRecreate,
              readPc, readErr, readLookups>>

delVars == <<delAnswer, delPc, delErr>>

createVars == <<createAnswer, createPc, createErr, createdAttrs>>

keyVars == <<oldPolicy, newPolicy, reusable, remote, diffPc, forceNew,
             diffErr, lookups, policy, keyType, id, invalidAttr, refreshed,
             readRecreate, readPc, readErr, readLookups, delAnswer,
             delPc, delErr, createAnswer, createPc, createErr, createdAttrs>>

vars == <<waitFor, cancelled, pc, site, d, outcome, attempts, lastRead,
          consulted, now, tickers, loopStart, maxNext, intervalNext,
          maxC, intervalC, oldPolicy, newPolicy, reusable, remote, diffPc,
          forceNew, diffErr, lookups, policy, keyType, id, invalidAttr,
          refreshed, readRecreate, readPc, readErr, readLookups,
          delAnswer, delPc, delErr, createAnswer, createPc, createErr,
          createdAttrs>>

\* Bound on the modelled time (in 500ms units).
MaxTime == 8

\* Bound on the counter of invocations of fn: the counter stops there.
MaxAttempts == 6

\* time.Second in 500ms units.
Second == 2

\* The wait_for values explored: empty, malformed, zero, negative, positive.
WaitPolicies == {"", "abc", "5", "0s", "-1s", "500ms", "1s", "1500ms", "2s"}

\* time.ParseDuration on the explored strings: a number needs a unit, the
\* empty string and free text are errors; the duration is in 500ms units.
ParseDuration(s) ==
    CASE s = "0s"     -> [err |-> FALSE, dur |-> 0]
      [] s = "-1s"    -> [err |-> FALSE, dur |-> 0 - 2]
      [] s = "500ms"  -> [err |-> FALSE, dur |-> 1]
      [] s = "1s"     -> [err |-> FALSE, dur |-> 2]
      [] s = "1500ms" -> [err |-> FALSE, dur |-> 3]
      [] s = "2s"     -> [err |-> FALSE, dur |-> 4]
      [] OTHER        -> [err |-> TRUE,  dur |-> 0]

\* The nil diagnostics a variable holds before assignment.
NoDiag == [kind |-> "none", from |-> 0]

\* The diagnostics produced by the n-th invocation of fn.
FnResult(ok, n) == [kind |-> IF ok THEN "success" ELSE "failure", from |-> n]

\* CancelDiag with the retained diagnostics returned on cancellation.
CancelDiag_retained == d

\* diag.FromErr(ctx.Err())
CancelDiag == [kind |-> "cancelled", from |-> 0]

\* diagnosticsError(err, "failed to parse wait_for")
ParseDiag == [kind |-> "parse_error", from |-> 0]

\* d.HasError()
HasError(r) == r.kind # "success"

\* InitialBranch with wait_for parsed before the result of the initial check
\* is looked at.
InitialBranch_parseFirst(r, w) ==
    IF w # "" /\ ParseDuration(w).err THEN "parse_error"
    ELSE IF ~HasError(r) THEN "return"
    ELSE IF w = "" THEN "refetch"
    ELSE IF ParseDuration(w).dur <= 0 THEN "panic"
    ELSE "loop"

\* InitialBranch with the error of time.ParseDuration ignored: the zero
\* duration it returns with an error goes to time.NewTicker.
InitialBranch_parseErrIgnored(r, w) ==
    IF ~HasError(r) THEN "return"
    ELSE IF w = "" THEN "refetch"
    ELSE IF ParseDuration(w).dur <= 0 THEN "panic"
    ELSE "loop"

\* The branch taken after the initial check.
InitialBranch(r, w) ==
    IF ~HasError(r) THEN "return"
    ELSE IF w = "" THEN "refetch"
    ELSE IF ParseDuration(w).err THEN "parse_error"
    ELSE IF ParseDuration(w).dur <= 0 THEN "panic"
    ELSE "loop"

\* RetryBranch with the result of a retry returned whether it failed or not.
RetryBranch_alwaysReturn(r) == "return"

\* RetryBranch with the loop continued until the deadline whatever the result.
RetryBranch_alwaysContinue(r) == "continue"

\* The branch taken after a retry inside the loop.
RetryBranch(r) == IF HasError(r) THEN "continue" ELSE "return"

\* DeadlineOutcome with a timeout error made up on deadline expiry.
DeadlineOutcome_timeout(r) == [kind |-> "failure", from |-> 0]

\* What the maxTicker case returns.
DeadlineOutcome(r) == r

\* ReadyCases of a select that has no case for maxTicker.C.
ReadyCases_noDeadline ==
    (IF cancelled THEN {"ctx"} ELSE {})
    \cup (IF intervalC THEN {"interval"} ELSE {})

\* The cases of the select statement that can proceed.
ReadyCases ==
    (IF cancelled THEN {"ctx"} ELSE {})
    \cup (IF maxC THEN {"max"} ELSE {})
    \cup (IF intervalC THEN {"interval"} ELSE {})

\* The period of maxTicker.
Dur == ParseDuration(waitFor).dur

timerVars == <<now, tickers, loopStart, maxNext, intervalNext, maxC, intervalC>>

\* return x
Return(x) ==
    /\ pc' = "done"
    /\ outcome' = x
    /\ UNCHANGED <<site, attempts>>

\* fn(ctx, data, i) is invoked at call site s.
InvokeFn(s) ==
    /\ pc' = "fn"
    /\ site' = s
    /\ attempts' = IF attempts < MaxAttempts THEN attempts + 1 ELSE attempts
    /\ UNCHANGED outcome

\* The surrounding framework calls the wrapped read: the initial check.
CallInitial ==
    /\ pc = "start"
    /\ InvokeFn("initial")
    /\ UNCHANGED <<waitFor, cancelled, d, lastRead, consulted>>
    /\ UNCHANGED timerVars
    /\ UNCHANGED keyVars

\* The initial check returns; the poller returns, refetches, reports the
\* parse error, or creates its tickers and enters the loop.
ReturnInitial ==
    /\ pc = "fn" /\ site = "initial"
    /\ \E ok \in BOOLEAN :
         LET r == FnResult(ok, attempts)
             b == InitialBranch(r, waitFor)
         IN /\ d' = r
            /\ lastRead' = r
            /\ consulted' = (b # "return")
            /\ CASE b = "return" -> Return(r) /\ UNCHANGED timerVars
                 [] b = "refetch" -> InvokeFn("refetch") /\ UNCHANGED timerVars
                 [] b = "parse_error" -> Return(ParseDiag) /\ UNCHANGED timerVars
                 [] b = "panic" ->
                       /\ pc' = "panic"
                       /\ UNCHANGED <<site, attempts, outcome>>
                       /\ UNCHANGED timerVars
                 [] b = "loop" ->
                       /\ pc' = "select"
                       /\ tickers' = TRUE
                       /\ loopStart' = now
                       /\ maxNext' = now + Dur
                       /\ intervalNext' = now + Second
                       /\ UNCHANGED <<site, attempts, outcome, now, maxC, intervalC>>
    /\ UNCHANGED <<waitFor, cancelled>>
    /\ UNCHANGED keyVars

\* The second call made for an empty wait_for returns; its result is returned.
ReturnRefetch ==
    /\ pc = "fn" /\ site = "refetch"
    /\ \E ok \in BOOLEAN :
         LET r == FnResult(ok, attempts)
         IN /\ lastRead' = r
            /\ Return(r)
    /\ UNCHANGED <<waitFor, cancelled, d, consulted>>
    /\ UNCHANGED timerVars
    /\ UNCHANGED keyVars

\* A retry made on an interval tick returns.
ReturnRetry ==
    /\ pc = "fn" /\ site = "retry"
    /\ \E ok \in BOOLEAN :
         LET r == FnResult(ok, attempts)
         IN /\ d' = r
            /\ lastRead' = r
            /\ IF RetryBranch(r) = "continue"
                 THEN pc' = "select" /\ UNCHANGED <<site, attempts, outcome>>
                 ELSE Return(r)
    /\ UNCHANGED <<waitFor, cancelled, consulted>>
    /\ UNCHANGED timerVars
    /\ UNCHANGED keyVars

\* The select statement with at least one case ready: one ready case is
\* chosen, with no priority among them.
Select ==
    /\ pc = "select"
    /\ \E c \in ReadyCases :
         CASE c = "ctx" ->
                 /\ Return(CancelDiag)
                 /\ UNCHANGED <<maxC, intervalC>>
           [] c = "max" ->
                 /\ Return(DeadlineOutcome(d))
                 /\ maxC' = FALSE
                 /\ UNCHANGED intervalC
           [] c = "interval" ->
                 /\ InvokeFn("retry")
                 /\ intervalC' = FALSE
                 /\ UNCHANGED maxC
    /\ UNCHANGED <<waitFor, cancelled, d, lastRead, consulted>>
    /\ UNCHANGED <<now, tickers, loopStart, maxNext, intervalNext>>
    /\ UNCHANGED keyVars

MaxDue == tickers /\ maxNext = now + 1

IntervalDue == tickers /\ intervalNext = now + 1

\* The select statement is blocked: no case can proceed.
Blocked == pc = "select" /\ ReadyCases = {}

\* Time passes while fn is in flight, or while the select is blocked and no
\* ticker expires; an expiring ticker buffers one tick in its channel.
TimePasses ==
    /\ now < MaxTime
    /\ \/ pc = "fn"
       \/ Blocked /\ ~MaxDue /\ ~IntervalDue
    /\ now' = now + 1
    /\ maxC' = (maxC \/ MaxDue)
    /\ intervalC' = (intervalC \/ IntervalDue)
    /\ maxNext' = IF MaxDue THEN maxNext + Dur ELSE maxNext
    /\ intervalNext' = IF IntervalDue THEN intervalNext + Second ELSE intervalNext
    /\ UNCHANGED <<waitFor, cancelled, pc, site, d, outcome, attempts,
                   lastRead, consulted, tickers, loopStart>>
    /\ UNCHANGED keyVars

\* maxTicker expires while the select is blocked: the blocked select receives
\* the tick. maxTicker was created before intervalTicker, so when both expire
\* at the same instant the deadline tick arrives first and the interval tick
\* is buffered.
WakeOnDeadline ==
    /\ now < MaxTime
    /\ Blocked /\ MaxDue
    /\ now' = now + 1
    /\ maxNext' = maxNext + Dur
    /\ intervalNext' = IF IntervalDue THEN intervalNext + Second ELSE intervalNext
    /\ intervalC' = IntervalDue
    /\ Return(DeadlineOutcome(d))
    /\ UNCHANGED <<waitFor, cancelled, d, lastRead, consulted, tickers,
                   loopStart, maxC>>
    /\ UNCHANGED keyVars

\* intervalTicker alone expires while the select is blocked: fn is retried.
WakeOnInterval ==
    /\ now < MaxTime
    /\ Blocked /\ ~MaxDue /\ IntervalDue
    /\ now' = now + 1
    /\ intervalNext' = intervalNext + Second
    /\ InvokeFn("retry")
    /\ UNCHANGED <<waitFor, cancelled, d, lastRead, consulted, tickers,
                   loopStart, maxNext, maxC, intervalC>>
    /\ UNCHANGED keyVars

\* The caller cancels the context: before the call, while fn is in flight, or
\* while the select is blocked (a select with a ready case takes no time). A
\* blocked select receives from ctx.Done() at once; otherwise the
\* cancellation is seen at the next select.
Cancel ==
    /\ ~cancelled
    /\ pc \in {"start", "fn"} \/ Blocked
    /\ cancelled' = TRUE
    /\ IF Blocked
         THEN Return(CancelDiag)
         ELSE UNCHANGED <<pc, site, attempts, outcome>>
    /\ UNCHANGED <<waitFor, d, lastRead, consulted>>
    /\ UNCHANGED timerVars
    /\ UNCHANGED keyVars

\* The recreate decision is not running.
KeyIdle ==
    /\ oldPolicy = "" /\ newPolicy = "" /\ reusable = FALSE
    /\ remote = "valid" /\ diffPc = "idle"
    /\ forceNew = FALSE /\ diffErr = FALSE /\ lookups = 0
    /\ policy = "" /\ keyType = "auth" /\ id = "" /\ invalidAttr = FALSE
    /\ refreshed = {} /\ readRecreate = "unset" /\ readPc = "idle"
    /\ readErr = "none" /\ readLookups = 0
    /\ delAnswer = "ok" /\ delPc = "idle" /\ delErr = FALSE
    /\ createAnswer = "ok" /\ createPc = "idle" /\ createErr = "none"
    /\ createdAttrs = {}

\* The poller is not running.
PollerIdle ==
    /\ waitFor = "" /\ cancelled = FALSE /\ pc = "idle" /\ site = "initial"
    /\ d = NoDiag /\ outcome = NoDiag /\ attempts = 0 /\ lastRead = NoDiag
    /\ consulted = FALSE /\ now = 0 /\ tickers = FALSE /\ loopStart = 0
    /\ maxNext = 0 /\ intervalNext = 0 /\ maxC = FALSE /\ intervalC = FALSE

\* One call of the function returned by readWithWaitFor.
Init ==
    /\ waitFor \in WaitPolicies
    /\ cancelled \in BOOLEAN
    /\ pc = "start" /\ site = "initial"
    /\ d = NoDiag /\ outcome = NoDiag /\ attempts = 0 /\ lastRead = NoDiag
    /\ consulted = FALSE /\ now = 0 /\ tickers = FALSE /\ loopStart = 0
    /\ maxNext = 0 /\ intervalNext = 0 /\ maxC = FALSE /\ intervalC = FALSE
    /\ KeyIdle

Next ==
    \/ CallInitial
    \/ ReturnInitial
    \/ ReturnRefetch
    \/ ReturnRetry
    \/ Select
    \/ TimePasses
    \/ WakeOnDeadline
    \/ WakeOnInterval
    \/ Cancel

Spec == Init /\ [][Next]_vars

(***************************************************************************)
(* readWithWaitFor without a time horizon, for liveness                    *)
(***************************************************************************)

\* The clock reaches the modelled horizon while the tickers run: the origin
\* of time is moved by one unit, which keeps the time left to each expiry.
\* The time since the tickers were created is kept up to D + 1.
Rebase ==
    /\ now = MaxTime
    /\ tickers
    /\ pc = "fn" \/ Blocked
    /\ now' = now - 1
    /\ maxNext' = maxNext - 1
    /\ intervalNext' = intervalNext - 1
    /\ loopStart' = IF now - loopStart > Dur THEN loopStart ELSE loopStart - 1
    /\ UNCHANGED <<waitFor, cancelled, pc, site, d, outcome, attempts,
                   lastRead, consulted, tickers, maxC, intervalC>>
    /\ UNCHANGED keyVars

\* The select takes the maxTicker case.
SelectDeadline == Select /\ maxC /\ ~maxC'

\* Time advances while the select is blocked.
BlockedTimeStep ==
    Blocked /\ (TimePasses \/ WakeOnDeadline \/ WakeOnInterval \/ Rebase)

NextLive == Next \/ Rebase

\* fn terminates, a select with a ready case proceeds, and time advances
\* while the select is blocked.
Progress ==
    /\ WF_vars(CallInitial)
    /\ WF_vars(ReturnInitial)
    /\ WF_vars(ReturnRefetch)
    /\ WF_vars(ReturnRetry)
    /\ WF_vars(Select)
    /\ WF_vars(BlockedTimeStep)

\* The pseudo-random choice of the select among its ready cases: a case that
\* is ready at infinitely many executions of the select is taken.
SpecLive == Init /\ [][NextLive]_vars /\ Progress /\ SF_vars(SelectDeadline)

\* The same with the deadline case only weakly fair.
SpecLiveWeak == Init /\ [][NextLive]_vars /\ Progress /\ WF_vars(SelectDeadline)

(***************************************************************************)
(* resourceTailnetKeyDiff                                                  *)
(***************************************************************************)

\* The values the schema accepts for recreate_if_invalid.
Policies == {"", "always", "never"}

\* The answers of client.Keys().Get for the key: found and valid, found and
\* marked invalid, a not-found error, any other error.
RemoteStates == {"valid", "invalid", "notfound", "error"}

\* shouldRecreateIfInvalid with the default of an unset policy taken to be
\* false instead of reusable.
shouldRecreateIfInvalid_defaultFalse(r, recreateIfInvalid) ==
    recreateIfInvalid = "always"

\* shouldRecreateIfInvalid with "never" not recognised: it falls through to
\* the default.
shouldRecreateIfInvalid_neverIgnored(r, recreateIfInvalid) ==
    IF recreateIfInvalid = "always" THEN TRUE ELSE r

shouldRecreateIfInvalid(r, recreateIfInvalid) ==
    IF recreateIfInvalid = "always" THEN TRUE
    ELSE IF recreateIfInvalid = "never" THEN FALSE
    ELSE r

\* LookupForcesNew with only a missing key forcing replacement.
LookupForcesNew_onlyNotFound(answer) == answer = "notfound"

\* tailscale.IsNotFound(err) || (err == nil && key.Invalid)
LookupForcesNew(answer) == answer = "notfound" \/ answer = "invalid"

\* The error resourceTailnetKeyDiff returns after the lookup: always nil.
LookupError(answer) == FALSE

\* DiffStart without the comparison of the old and new policy.
DiffStart_noChangeCheck ==
    /\ diffPc = "start"
    /\ IF ~shouldRecreateIfInvalid(reusable, newPolicy)
         THEN diffPc' = "done" /\ UNCHANGED lookups
         ELSE diffPc' = "lookup" /\ lookups' = lookups + 1
    /\ UNCHANGED <<oldPolicy, newPolicy, reusable, remote, forceNew, diffErr>>
    /\ UNCHANGED readVars
    /\ UNCHANGED delVars
    /\ UNCHANGED createVars
    /\ UNCHANGED pollerVars

\* The diff hook runs up to the remote lookup: it returns nil when the policy
\* is unchanged or the key is not to be recreated, else it calls Keys().Get.
DiffStart ==
    /\ diffPc = "start"
    /\ IF oldPolicy = newPolicy
         THEN diffPc' = "done" /\ UNCHANGED lookups
         ELSE IF ~shouldRecreateIfInvalid(reusable, newPolicy)
                THEN diffPc' = "done" /\ UNCHANGED lookups
                ELSE diffPc' = "lookup" /\ lookups' = lookups + 1
    /\ UNCHANGED <<oldPolicy, newPolicy, reusable, remote, forceNew, diffErr>>
    /\ UNCHANGED readVars
    /\ UNCHANGED delVars
    /\ UNCHANGED createVars
    /\ UNCHANGED pollerVars

\* Keys().Get answers; the hook flags the attribute or not, and returns.
DiffLookupReturn ==
    /\ diffPc = "lookup"
    /\ forceNew' = LookupForcesNew(remote)
    /\ diffErr' = LookupError(remote)
    /\ diffPc' = "done"
    /\ UNCHANGED <<oldPolicy, newPolicy, reusable, remote, lookups>>
    /\ UNCHANGED readVars
    /\ UNCHANGED delVars
    /\ UNCHANGED createVars
    /\ UNCHANGED pollerVars

(***************************************************************************)
(* resourceTailnetKeyRead, as registered in ReadContext                    *)
(***************************************************************************)

\* key.KeyType of the keys the remote can return.
KeyTypes == {"auth", "client"}

\* key.ID of the key the remote returns: the ID that was asked for.
KeyID == "test"

\* The attributes Read sets from the remote key.
KeyAttrs == {"reusable", "ephemeral", "expiry", "created_at", "expires_at",
             "description", "invalid", "user_id", "preauthorized", "tags"}

\* ReadClearsId with the policy ignored: every invalid or missing key is
\* removed from state.
ReadClearsId_policyIgnored(answer, recreate) ==
    answer = "notfound" \/ answer = "invalid"

\* ReadClearsId with a missing key always kept in state: only a key marked
\* invalid is removed.
ReadClearsId_notFoundKept(answer, recreate) ==
    answer = "invalid" /\ recreate

\* Read calls d.SetId(""): the key is not found or is marked invalid, and it
\* is to be recreated.
ReadClearsId(answer, recreate) ==
    \/ answer = "notfound" /\ recreate
    \/ answer = "invalid" /\ recreate

\* ReadError with a missing key that is not to be recreated reported as a
\* failed fetch.
ReadError_notFoundFails(answer, recreate, kt) ==
    IF answer = "notfound" THEN (IF recreate THEN "none" ELSE "fetch")
    ELSE IF answer = "error" THEN "fetch"
    ELSE IF answer = "invalid" /\ recreate THEN "none"
    ELSE IF kt # "auth" THEN "keytype"
    ELSE "none"

\* The diagnostics Read returns.
ReadError(answer, recreate, kt) ==
    IF answer = "notfound" THEN "none"
    ELSE IF answer = "error" THEN "fetch"
    ELSE IF answer = "invalid" /\ recreate THEN "none"
    ELSE IF kt # "auth" THEN "keytype"
    ELSE "none"

\* Read copies the remote key into the resource data: the key was found, it
\* is not removed from state, and it is an auth key.
ReadRefreshes(answer, recreate, kt) ==
    /\ answer \in {"valid", "invalid"}
    /\ ~ReadClearsId(answer, recreate)
    /\ kt = "auth"

\* The framework calls the registered ReadContext, resourceTailnetKeyRead:
\* it computes recreateIfInvalid and calls Keys().Get.
ReadStart ==
    /\ readPc = "start"
    /\ readRecreate' = shouldRecreateIfInvalid(reusable, policy)
    /\ readLookups' = readLookups + 1
    /\ readPc' = "lookup"
    /\ UNCHANGED <<policy, keyType, id, invalidAttr, refreshed, readErr>>
    /\ UNCHANGED <<reusable, remote>>
    /\ UNCHANGED diffVars
    /\ UNCHANGED delVars
    /\ UNCHANGED createVars
    /\ UNCHANGED pollerVars

\* ReadLookupReturn with a failed lookup tried once more before it is
\* reported.
ReadLookupReturn_retryOnError ==
    /\ readPc = "lookup"
    /\ IF remote = "error" /\ readLookups < 2
         THEN /\ readLookups' = readLookups + 1
              /\ UNCHANGED <<id, refreshed, invalidAttr, readErr, readPc>>
         ELSE /\ id' = IF ReadClearsId(remote, readRecreate) THEN ""
                       ELSE IF ReadRefreshes(remote, readRecreate, keyType)
                              THEN KeyID ELSE id
              /\ refreshed' = IF ReadRefreshes(remote, readRecreate, keyType)
                                THEN KeyAttrs ELSE refreshed
              /\ invalidAttr' = IF ReadRefreshes(remote, readRecreate, keyType)
                                  THEN (remote = "invalid") ELSE invalidAttr
              /\ readErr' = ReadError(remote, readRecreate, keyType)
              /\ readPc' = "done"
              /\ UNCHANGED readLookups
    /\ UNCHANGED <<policy, keyType, readRecreate>>
    /\ UNCHANGED <<reusable, remote>>
    /\ UNCHANGED diffVars
    /\ UNCHANGED delVars
    /\ UNCHANGED createVars
    /\ UNCHANGED pollerVars

\* Keys().Get answers; Read clears the ID, reports an error, or copies the
\* key into the resource data, and returns. Nothing is retried.
ReadLookupReturn ==
    /\ readPc = "lookup"
    /\ id' = IF ReadClearsId(remote, readRecreate) THEN ""
             ELSE IF ReadRefreshes(remote, readRecreate, keyType)
                    THEN KeyID ELSE id
    /\ refreshed' = IF ReadRefreshes(remote, readRecreate, keyType)
                      THEN KeyAttrs ELSE refreshed
    /\ invalidAttr' = IF ReadRefreshes(remote, readRecreate, keyType)
                        THEN (remote = "invalid") ELSE invalidAttr
    /\ readErr' = ReadError(remote, readRecreate, keyType)
    /\ readPc' = "done"
    /\ UNCHANGED <<policy, keyType, readRecreate, readLookups>>
    /\ UNCHANGED <<reusable, remote>>
    /\ UNCHANGED diffVars
    /\ UNCHANGED delVars
    /\ UNCHANGED createVars
    /\ UNCHANGED pollerVars

(***************************************************************************)
(* resourceTailnetKeyDelete                                                *)
(***************************************************************************)

\* The answers of client.Keys().Delete: deleted, a not-found error, any
\* other error.
DeleteAnswers == {"ok", "notfound", "error"}

\* DeleteError with a not-found answer reported like any other error.
DeleteError_notFoundFails(answer) == answer # "ok"

\* resourceTailnetKeyDelete returns an error.
DeleteError(answer) ==
    IF answer = "notfound" THEN FALSE
    ELSE IF answer # "ok" THEN TRUE
    ELSE FALSE

resourceTailnetKeyDelete ==
    /\ delPc = "start"
    /\ delErr' = DeleteError(delAnswer)
    /\ delPc' = "done"
    /\ UNCHANGED delAnswer
    /\ UNCHANGED <<reusable, remote>>
    /\ UNCHANGED diffVars
    /\ UNCHANGED readVars
    /\ UNCHANGED createVars
    /\ UNCHANGED pollerVars

\* One call of the diff hook, one of Read and one of Delete on a key that is
\* in state, for every declared configuration and every remote answer.
InitKey ==
    /\ oldPolicy \in Policies
    /\ newPolicy \in Policies
    /\ reusable \in BOOLEAN
    /\ remote \in RemoteStates
    /\ diffPc = "start"
    /\ forceNew = FALSE /\ diffErr = FALSE /\ lookups = 0
    /\ policy \in Policies
    /\ keyType \in KeyTypes
    /\ id = KeyID /\ invalidAttr \in BOOLEAN /\ refreshed = {}
    /\ readRecreate = "unset" /\ readPc = "start"
    /\ readErr = "none" /\ readLookups = 0
    /\ delAnswer \in DeleteAnswers
    /\ delPc = "start" /\ delErr = FALSE
    /\ createAnswer = "ok" /\ createPc = "idle" /\ createErr = "none"
    /\ createdAttrs = {}
    /\ PollerIdle

NextKey ==
    \/ DiffStart
    \/ DiffLookupReturn
    \/ ReadStart
    \/ ReadLookupReturn
    \/ resourceTailnetKeyDelete

SpecKey == InitKey /\ [][NextKey]_vars

(***************************************************************************)
(* resourceTailnetKeyCreate                                                *)
(***************************************************************************)

\* The answers of client.Keys().CreateAuthKey: the created key, or an error.
CreateAnswers == {"ok", "error"}

\* The attributes Create sets from the created key before it calls Read.
CreatedAttrs == {"key", "created_at", "expires_at", "invalid"}

\* Create up to its last statement: CreateAuthKey is called; on an error
\* Create returns it; otherwise the ID and the attributes of the created key
\* are stored and resourceTailnetKeyRead is called on the same resource data.
resourceTailnetKeyCreate ==
    /\ createPc = "start"
    /\ IF createAnswer # "ok"
         THEN /\ createErr' = "create"
              /\ createPc' = "done"
              /\ UNCHANGED <<id, invalidAttr, createdAttrs, readPc>>
         ELSE /\ id' = KeyID
              /\ createdAttrs' = CreatedAttrs
              /\ \E inv \in BOOLEAN : invalidAttr' = inv
              /\ readPc' = "start"
              /\ createPc' = "read"
              /\ UNCHANGED createErr
    /\ UNCHANGED <<policy, keyType, refreshed, readRecreate, readErr,
                   readLookups, createAnswer>>
    /\ UNCHANGED <<reusable, remote>>
    /\ UNCHANGED diffVars
    /\ UNCHANGED delVars
    /\ UNCHANGED pollerVars

\* return resourceTailnetKeyRead(ctx, d, m): Create returns what Read returned.
CreateReturn ==
    /\ createPc = "read" /\ readPc = "done"
    /\ createErr' = readErr
    /\ createPc' = "done"
    /\ UNCHANGED <<createAnswer, createdAttrs>>
    /\ UNCHANGED <<reusable, remote>>
    /\ UNCHANGED diffVars
    /\ UNCHANGED readVars
    /\ UNCHANGED delVars
    /\ UNCHANGED pollerVars

\* One call of Create on a new resource (no ID yet), for every declared
\* configuration, every answer of CreateAuthKey and every answer of the
\* lookup Read makes afterwards. The created key is an auth key.
InitCreate ==
    /\ oldPolicy = "" /\ newPolicy = "" /\ diffPc = "idle"
    /\ forceNew = FALSE /\ diffErr = FALSE /\ lookups = 0
    /\ reusable \in BOOLEAN
    /\ remote \in RemoteStates
    /\ policy \in Policies
    /\ keyType = "auth"
    /\ id = "" /\ invalidAttr = FALSE /\ refreshed = {}
    /\ readRecreate = "unset" /\ readPc = "idle"
    /\ readErr = "none" /\ readLookups = 0
    /\ delAnswer = "ok" /\ delPc = "idle" /\ delErr = FALSE
    /\ createAnswer \in CreateAnswers
    /\ createPc = "start" /\ createErr = "none" /\ createdAttrs = {}
    /\ PollerIdle

NextCreate ==
    \/ resourceTailnetKeyCreate
    \/ ReadStart
    \/ ReadLookupReturn
    \/ CreateReturn

SpecCreate == InitCreate /\ [][NextCreate]_vars

(***************************************************************************)
(* Properties of readWithWaitFor                                           *)
(***************************************************************************)

\* The initial check succeeded / failed (d holds its result until a retry).
FirstSucceeded == d.from = 1 /\ d.kind = "success"

FirstFailed == d.from = 1 /\ d.kind = "failure"

\* C1: with an empty wait_for, fn is invoked exactly once, and the outcome
\* returned is the result of that single invocation.
C1_SingleAttempt ==
    (pc = "done" /\ waitFor = "") => (attempts = 1 /\ outcome.from = 1)

\* C2: a select executed while the context is cancelled returns the
\* cancellation failure and starts no further invocation of fn, whatever
\* ticks are buffered in the ticker channels.
C2_CancelWins ==
    [][(pc = "select" /\ cancelled)
         => (pc' = "done" /\ outcome' = CancelDiag /\ attempts' = attempts)]_vars

\* C4: once in the loop, the number of invocations of fn, the initial check
\* included, never exceeds ceil(D / 1s) + 1.
C4_AttemptBound ==
    tickers => attempts <= ((Dur + Second - 1) \div Second) + 1

\* C5: no invocation of fn starts in the loop once the deadline tick has
\* been delivered to maxTicker.C.
C5_NoReadAfterDeadline ==
    [][(tickers /\ maxC) => attempts' = attempts]_vars

\* C6: with a wait_for that parses, a remote failure is returned only once
\* the deadline has passed: at least D after the tickers were created.
C6_FailureOnlyAfterDeadline ==
    (pc = "done" /\ outcome.kind = "failure" /\ ~ParseDuration(waitFor).err)
        => (tickers /\ now - loopStart >= Dur)

C6_Witness ==
    /\ pc = "done" /\ outcome.kind = "failure" /\ ~cancelled
    /\ waitFor = "1500ms" /\ attempts = 2 /\ now - loopStart = Dur

\* C7: when the initial check succeeds, its result is returned at once, after
\* one invocation of fn, with no ticker created and wait_for never read, for
\* every value of wait_for.
C7_FastPath ==
    FirstSucceeded
        => (pc = "done" /\ outcome = d /\ attempts = 1 /\ ~tickers
            /\ ~consulted /\ ~maxC /\ ~intervalC)

C7_Witness ==
    pc = "done" /\ FirstSucceeded /\ waitFor = "abc" /\ outcome.kind = "success"

\* C8: an outcome that is neither the cancellation failure nor the parse
\* error is the result of the most recent invocation of fn.
C8_OutcomeIsLatestRead ==
    (pc = "done" /\ outcome.kind \notin {"cancelled", "parse_error"})
        => (outcome = lastRead /\ outcome.from = attempts)

C8_Witness ==
    /\ pc = "done" /\ outcome.kind = "failure" /\ tickers
    /\ attempts = 3 /\ outcome.from = 3

\* C9: when the initial check fails and wait_for is not empty and does not
\* parse, the parse error is returned at once: one invocation of fn, no
\* ticker, and an outcome that is not the remote failure.
C9_ParseErrorFatal ==
    (FirstFailed /\ waitFor # "" /\ ParseDuration(waitFor).err)
        => (pc = "done" /\ outcome = ParseDiag /\ outcome # d
            /\ attempts = 1 /\ ~tickers)

C9_Witness ==
    pc = "done" /\ FirstFailed /\ waitFor = "5" /\ outcome = ParseDiag

\* C10: when the context was cancelled before the poller returned, the
\* outcome is the cancellation failure.
C10_CancelledBeforeOutcome ==
    (pc = "done" /\ cancelled) => outcome = CancelDiag

\* C11: when the context is cancelled while the select is blocked (neither
\* the next interval tick nor the deadline has expired), the poller returns
\* the cancellation failure at that moment, and no invocation of fn follows.
C11_CancelWhileBlocked ==
    [][/\ (Blocked /\ ~cancelled /\ cancelled')
            => (pc' = "done" /\ outcome'.kind = "cancelled"
                /\ attempts' = attempts)
       /\ (pc = "done" /\ outcome.kind = "cancelled")
            => (attempts' = attempts /\ outcome' = outcome)]_vars

C11_Witness ==
    /\ pc = "done" /\ outcome.kind = "cancelled" /\ waitFor = "2s"
    /\ lastRead.kind = "failure" /\ attempts = 1
    /\ now = loopStart + 1 /\ ~maxC /\ ~intervalC

\* C12: an outcome is terminal. Once the poller has returned, its outcome
\* never changes and fn is not invoked again; and a retry that succeeds is
\* returned in the step in which it completes, before the deadline.
C12_OutcomeTerminal ==
    [][/\ pc = "done"
            => (pc' = "done" /\ outcome' = outcome /\ attempts' = attempts)
       /\ outcome # NoDiag => outcome' = outcome
       /\ (pc = "fn" /\ site = "retry" /\ lastRead' # lastRead
           /\ lastRead'.kind = "success")
            => (pc' = "done" /\ outcome' = lastRead')]_vars

C12_Witness ==
    /\ pc = "done" /\ outcome.kind = "success" /\ outcome.from = 2
    /\ tickers /\ ~maxC /\ now - loopStart < Dur

\* C20: a call whose wait_for is empty, malformed or a positive duration
\* eventually returns an outcome, provided fn terminates and the choice of
\* the select is strongly fair to the deadline case.
C20_EventuallyReturns ==
    (ParseDuration(waitFor).err \/ Dur > 0) => <>(pc = "done")

C20_Witness ==
    /\ pc = "done" /\ outcome.kind = "failure" /\ waitFor = "1500ms"
    /\ ~cancelled /\ attempts = 4

\* C24: for every wait_for that parses as a duration, zero and negative
\* durations included, a call whose initial check fails does not abort when
\* it creates maxTicker: it goes on to return an ordinary outcome.
C24_NoAbortOnParsedPolicy ==
    (FirstFailed /\ ~ParseDuration(waitFor).err) => pc # "panic"

(***************************************************************************)
(* Properties of resourceTailnetKeyDiff                                    *)
(***************************************************************************)

\* C3: when the lookup made by the diff hook fails with an error other than
\* not-found, the hook returns an error and does not flag the attribute.
C3_ErrorSurfaced ==
    (diffPc = "done" /\ lookups = 1 /\ remote = "error")
        => (diffErr /\ ~forceNew)

\* The reference table of the recreate decision: <<reusable, policy, result>>.
RecreateTable ==
    { <<TRUE,  "",       TRUE>>,  <<FALSE, "",       FALSE>>,
      <<TRUE,  "always", TRUE>>,  <<FALSE, "always", TRUE>>,
      <<TRUE,  "never",  FALSE>>, <<FALSE, "never",  FALSE>> }

\* C13: the value shouldRecreateIfInvalid computes in Read is the one of the
\* reference table: true for "always", false for "never", reusable otherwise.
C13_RecreateTable ==
    readPc \in {"lookup", "done"}
        => <<reusable, policy, readRecreate>> \in RecreateTable

C13_Witness ==
    readPc = "lookup" /\ reusable /\ policy = "" /\ readRecreate = TRUE

\* C14: when the old and new policy are equal the diff hook returns at once:
\* no lookup is made and the attribute is not flagged, whatever the remote
\* would answer.
C14_UnchangedPolicy ==
    (oldPolicy = newPolicy /\ diffPc # "start")
        => (diffPc = "done" /\ lookups = 0 /\ ~forceNew /\ ~diffErr)

C14_Witness ==
    /\ diffPc = "done" /\ oldPolicy = "always" /\ newPolicy = "always"
    /\ reusable /\ remote = "notfound" /\ lookups = 0 /\ ~forceNew

\* C15: when the policy changed and the table gives false for the new policy,
\* the diff hook returns without a lookup and without flagging the attribute.
C15_NoLookupWhenNotRecreated ==
    (oldPolicy # newPolicy /\ <<reusable, newPolicy, FALSE>> \in RecreateTable
     /\ diffPc # "start")
        => (diffPc = "done" /\ lookups = 0 /\ ~forceNew)

C15_Witness ==
    /\ diffPc = "done" /\ reusable /\ oldPolicy = "always"
    /\ newPolicy = "never" /\ remote = "notfound" /\ lookups = 0 /\ ~forceNew

\* C16: when the policy changed and the table gives true for the new policy,
\* the diff hook makes one lookup and flags the attribute if and only if the
\* key is not found or is marked invalid.
C16_ForceNewIffGone ==
    (diffPc = "done" /\ oldPolicy # newPolicy
     /\ <<reusable, newPolicy, TRUE>> \in RecreateTable)
        => (lookups = 1 /\ (forceNew <=> remote \in {"notfound", "invalid"}))

C16_Witness ==
    /\ diffPc = "done" /\ ~reusable /\ oldPolicy = "never"
    /\ newPolicy = "always" /\ remote = "invalid" /\ forceNew

\* C17: a refresh of a key the remote marks invalid clears the ID exactly
\* when the table gives true for reusable and the policy; otherwise the ID
\* stays the one of the key.
C17_InvalidKeyRemoved ==
    (readPc = "done" /\ remote = "invalid")
        => /\ (id = "") <=> (<<reusable, policy, TRUE>> \in RecreateTable)
           /\ id \in {"", KeyID}

C17_Witness ==
    /\ readPc = "done" /\ remote = "invalid" /\ ~reusable
    /\ policy = "always" /\ id = ""

\* C18: Delete returns an error exactly when the remote delete fails with an
\* error other than not-found.
C18_DeleteNotFoundIsNoop ==
    delPc = "done" => (delErr <=> delAnswer = "error")

C18_Witness ==
    delPc = "done" /\ delAnswer = "notfound" /\ ~delErr

\* C19 as claimed: a read of the tailnet key resource that fails is retried,
\* it is not returned after a single remote lookup.
C19_ReadIsPolled ==
    (readPc = "done" /\ readErr = "fetch") => readLookups > 1

\* C19: the tailnet key resource registers resourceTailnetKeyRead itself as
\* its ReadContext: a read makes exactly one remote lookup, and a lookup
\* error other than not-found is returned after that single lookup.
C19_ReadIsSingleLookup ==
    readPc = "done"
        => (readLookups = 1 /\ (remote = "error" => readErr = "fetch"))

C19_Witness ==
    readPc = "done" /\ remote = "error" /\ readErr = "fetch" /\ readLookups = 1

(***************************************************************************)
(* Properties of resourceTailnetKeyCreate                                  *)
(***************************************************************************)

\* C21: when Create returns without error after CreateAuthKey succeeded, the
\* ID of the resource is the ID of the created key, whatever the lookup of
\* the Read it ends with answered.
C21_CreatedIdKept ==
    (createPc = "done" /\ createAnswer = "ok" /\ createErr = "none")
        => id = KeyID

(***************************************************************************)
(* Properties of resourceTailnetKeyRead                                    *)
(***************************************************************************)

\* Read returns from its lookup with a key that is not to be recreated.
ReadReturnsKept(answer) ==
    /\ readPc = "lookup" /\ readPc' = "done"
    /\ remote = answer /\ readRecreate = FALSE

\* C22 as claimed: a Read that gets not-found for a key not to be recreated
\* returns no error and changes neither the ID nor a stored attribute; a Read
\* that finds such a key marked invalid keeps the ID and stores invalid = true,
\* whatever the type of the key.
C22_ReadKeepsState ==
    [][/\ ReadReturnsKept("notfound")
            => (readErr' = "none" /\ id' = id /\ refreshed' = refreshed
                /\ invalidAttr' = invalidAttr)
       /\ ReadReturnsKept("invalid")
            => (id' = id /\ invalidAttr' = TRUE)]_vars

\* C22: a Read that gets not-found for a key not to be recreated returns no
\* error and changes neither the ID nor a stored attribute; a Read that finds
\* such a key marked invalid keeps the ID, and it stores invalid = true when
\* the key is an auth key: for any other key type it returns the key type
\* error and stores nothing.
C22_ReadKeepsStateOfAuthKey ==
    [][/\ ReadReturnsKept("notfound")
            => (readErr' = "none" /\ id' = id /\ refreshed' = refreshed
                /\ invalidAttr' = invalidAttr)
       /\ ReadReturnsKept("invalid")
            => /\ id' = id
               /\ keyType = "auth"
                    => (invalidAttr' = TRUE /\ readErr' = "none"
                        /\ refreshed' = KeyAttrs)
               /\ keyType # "auth"
                    => (readErr' = "keytype" /\ invalidAttr' = invalidAttr
                        /\ refreshed' = refreshed)]_vars

C22_Witness ==
    /\ readPc = "done" /\ remote = "invalid" /\ readRecreate = FALSE
    /\ keyType = "auth" /\ id = KeyID /\ invalidAttr /\ readErr = "none"
    /\ "invalid" \in refreshed

\* C23: the diff hook and Read agree on what triggers recreation. For every
\* reusable flag, every policy and a remote that answers valid, invalid or
\* not-found, the diff hook given a changed policy flags the attribute if and
\* only if Read, given the same reusable flag, the new policy and the same
\* remote answer, clears the ID.
C23_DiffAgreesWithRead ==
    (/\ diffPc = "done" /\ readPc = "done"
     /\ oldPolicy # newPolicy /\ policy = newPolicy
     /\ remote \in {"valid", "invalid", "notfound"})
        => (forceNew <=> id = "")

C23_Witness ==
    /\ diffPc = "done" /\ readPc = "done" /\ reusable
    /\ oldPolicy = "never" /\ newPolicy = "" /\ policy = ""
    /\ remote = "notfound" /\ forceNew /\ id = ""

====
